---- MODULE Spec2Model ----
(***************************************************************************)
(* Voice assistant worker of livekit-testing: the entrypoints of           *)
(* src/agent.py, src/_agent2.py and src/_agent3.py, the turn loop the      *)
(* agent framework drives once a session is started, and the call-transfer *)
(* workflow of src/agent.py (Assistant.transfer_call as a function tool,   *)
(* Assistant._handle_transfer, Assistant.transfer_call as a method).       *)
(*                                                                         *)
(* The agent framework, the room transport and the telephony control API   *)
(* are not part of the sources.  Each call into them is a step that either *)
(* returns or raises; what the sources do with either result is modelled.  *)
(***************************************************************************)
EXTENDS Integers, Sequences, FiniteSets, TLC

\* ---------------------------------------------------------------- bounds
MaxRuns == 2      \* tool invocations of one session
MaxTurns == 2     \* plain-text turns of one session

\* ------------------------------------------------------------- constants
GraceDelay == 6                                   \* asyncio.sleep(6)

CallerIdentity == "caller"      \* participant.identity of the joined caller
AgentIdentity == "agent"        \* ctx.room.local_participant.identity
RoomName == "room"              \* ctx.room.name
TransferNumber == "sip:5652917934@127.0.0.1:49999"
DeptName == "Agente"

Variants == {"agent", "agent2", "agent3"}
EnvNames == {"ELEVENLABS_API_KEY", "LIVEKIT_URL", "LIVEKIT_API_KEY", "LIVEKIT_API_SECRET"}
LiveKitCreds == {"LIVEKIT_URL", "LIVEKIT_API_KEY", "LIVEKIT_API_SECRET"}
\* environments the worker is launched in: either kind of credential may be absent
Environments == { EnvNames, EnvNames \ {"ELEVENLABS_API_KEY"}, EnvNames \ {"LIVEKIT_API_KEY"} }

VARIABLES
    variant,              \* which worker file runs
    env,                  \* names defined in the process environment
    ip,                   \* position in the entrypoint body (index of the next statement)
    alive,                \* FALSE once an exception left the entrypoint
    connected,            \* ctx.connect() returned
    joined,               \* ctx.wait_for_participant() returned
    room_name,            \* Assistant.room_name / AssistantFnc.room_name
    participant_identity, \* Assistant.participant_identity
    session_data,         \* Assistant.session_data
    session,              \* "none" | "running" | "closed"
    userdata,             \* session.userdata: livekit_api, selected_department
    turn,                 \* position of the turn loop
    speech,               \* the speech being played to the caller
    wf,                   \* position inside the transfer workflow
    hp,                   \* position in the body of _handle_transfer
    timer,                \* seconds slept by asyncio.sleep
    args,                 \* arguments of the running _handle_transfer / transfer_call
    run,                  \* what the running (or last) workflow execution did
    hist                  \* what the session did so far

vars == << variant, env, ip, alive, connected, joined, room_name, participant_identity,
           session_data, session, userdata, turn, speech, wf, hp, timer, args, run, hist >>

entryVars == << ip, alive, connected, joined, room_name, participant_identity, session_data >>
flowVars == << wf, hp, timer, args, run >>

\* ------------------------------------------------------ entrypoint bodies
EntrySteps_GreetFirst(v) ==
    IF v = "agent"
    THEN << "connect", "greet", "wait_for_participant", "init_context", "create_tts",
            "start_session" >>
    ELSE IF v = "agent2"
    THEN << "connect", "create_tts", "start_session", "greet" >>
    ELSE << "connect", "wait_for_participant", "init_context", "create_tts",
            "start_session", "greet" >>

\* the awaited statements of each entrypoint, in source order
EntrySteps(v) ==
    IF v = "agent"
    THEN << "connect", "wait_for_participant", "init_context", "create_tts",
            "start_session", "greet" >>
    ELSE IF v = "agent2"
    THEN << "connect", "create_tts", "start_session", "greet" >>
    ELSE << "connect", "wait_for_participant", "init_context", "create_tts",
            "start_session", "greet" >>

AtStep(s) ==
    /\ alive
    /\ ip <= Len(EntrySteps(variant))
    /\ EntrySteps(variant)[ip] = s

NoData == [k \in {"start_time", "language"} |-> "unset"]

\* Assistant.set_data
set_data(d, key, value) == [d EXCEPT ![key] = value]

\* Assistant.get_data
get_data(d, key, default) == IF d[key] = "unset" THEN default ELSE d[key]

NewRun ==
    [ started |-> FALSE,      \* _handle_transfer was entered
      ann |-> 0,              \* announcements requested
      annDone |-> FALSE,      \* the await of the announcement returned
      annCut |-> FALSE,       \* the announcement was cut by caller speech
      slept |-> 0,            \* seconds asyncio.sleep had waited when it returned
      sleptDone |-> FALSE,    \* asyncio.sleep returned
      entered |-> FALSE,      \* transfer_call (method) was entered
      client |-> "none",      \* "none" | "built" | "reused" | "failed"
      reqs |-> 0,             \* transfer requests issued
      outcome |-> << >>,      \* outcomes produced, in order
      apologies |-> 0,        \* fallback apologies requested
      apiRaised |-> FALSE,    \* transfer_sip_participant raised
      failed |-> "none",      \* the step that raised, if any
      escaped |-> FALSE,      \* the exception left the tool
      resolved |-> FALSE ]    \* the tool invocation is over

NewHist ==
    [ greetings |-> 0,
      turns |-> 0,
      toolCalls |-> 0,        \* transfer tool invocations yielded by the reasoning step
      handled |-> 0,          \* entries into _handle_transfer
      built |-> 0,            \* telephony clients constructed
      reused |-> 0,           \* executions that found the stored client
      requests |-> << >>,     \* transfer requests sent to the control API
      credReads |-> {},       \* credentials read after a caller joined or the session started
      credFallback |-> FALSE ] \* a missing credential ended in the spoken fallback

Init ==
    /\ variant \in Variants
    /\ env \in Environments
    /\ ip = 1
    /\ alive = TRUE
    /\ connected = FALSE
    /\ joined = FALSE
    /\ room_name = "None"
    /\ participant_identity = "None"
    /\ session_data = NoData
    /\ session = "none"
    /\ userdata = [livekit_api |-> FALSE, selected_department |-> "None"]
    /\ turn = "Idle"
    /\ speech = "none"
    /\ wf = "none"
    /\ hp = 1
    /\ timer = 0
    /\ args = [identity |-> "None", transfer_number |-> "None", department |-> "None"]
    /\ run = NewRun
    /\ hist = NewHist

\* --------------------------------------------------------------- entrypoint
\* await ctx.connect()
Connect ==
    /\ AtStep("connect")
    /\ \E ok \in BOOLEAN :
        IF ok
        THEN /\ connected' = TRUE
             /\ ip' = ip + 1
             /\ alive' = alive
        ELSE /\ alive' = FALSE
             /\ UNCHANGED << connected, ip >>
    /\ UNCHANGED << variant, env, joined, room_name, participant_identity, session_data,
                    session, userdata, turn, speech, wf, hp, timer, args, run, hist >>

\* participant = await ctx.wait_for_participant()
WaitForParticipant ==
    /\ AtStep("wait_for_participant")
    /\ \E ok \in BOOLEAN :
        IF ok
        THEN /\ joined' = TRUE
             /\ ip' = ip + 1
             /\ alive' = alive
        ELSE /\ alive' = FALSE
             /\ UNCHANGED << joined, ip >>
    /\ UNCHANGED << variant, env, connected, room_name, participant_identity, session_data,
                    session, userdata, turn, speech, wf, hp, timer, args, run, hist >>

\* agent.py: Assistant(), room_name, participant_identity, set_data x 2
\* _agent3.py: AssistantFnc(), room_name, participant_identity
InitContext ==
    /\ AtStep("init_context")
    /\ room_name' = RoomName
    /\ participant_identity' = CallerIdentity
    /\ session_data' = IF variant = "agent"
                       THEN set_data(set_data(session_data, "start_time", "now"), "language", "es")
                       ELSE session_data
    /\ ip' = ip + 1
    /\ UNCHANGED << variant, env, alive, connected, joined, session, userdata, turn,
                    speech, wf, hp, timer, args, run, hist >>

\* tts.TTS(api_key=os.environ.get("ELEVENLABS_API_KEY"), ...); _agent3.py raises
\* ValueError itself when the key is missing
CreateTTS ==
    /\ AtStep("create_tts")
    /\ hist' = [hist EXCEPT !.credReads =
                    IF joined \/ session # "none" THEN @ \cup {"ELEVENLABS_API_KEY"} ELSE @]
    /\ IF "ELEVENLABS_API_KEY" \in env
       THEN /\ ip' = ip + 1
            /\ alive' = alive
       ELSE /\ alive' = FALSE
            /\ ip' = ip
    /\ UNCHANGED << variant, env, connected, joined, room_name, participant_identity,
                    session_data, session, userdata, turn, speech, wf, hp, timer, args, run >>

\* AgentSession(...) ; await session.start(room=ctx.room, agent=assistant)
StartSession ==
    /\ AtStep("start_session")
    /\ session' = "running"
    /\ turn' = "Listening"
    /\ ip' = ip + 1
    /\ UNCHANGED << variant, env, alive, connected, joined, room_name, participant_identity,
                    session_data, userdata, speech, wf, hp, timer, args, run, hist >>

\* await session.generate_reply(instructions=...) / await agent.say(...)
Greet ==
    /\ AtStep("greet")
    /\ speech = "none"
    /\ wf = "none"
    /\ turn \in {"Idle", "Listening"}
    /\ speech' = "greeting"
    /\ hist' = [hist EXCEPT !.greetings = @ + 1]
    /\ ip' = ip + 1
    /\ UNCHANGED << variant, env, alive, connected, joined, room_name, participant_identity,
                    session_data, session, userdata, turn, wf, hp, timer, args, run >>

\* ------------------------------------------------------------ class body
\* the statements of the body of class Assistant that bind a name, in source order
ClassBody ==
    << [name |-> "__init__", def |-> "init_37", params |-> 0, tool |-> FALSE],
       [name |-> "set_data", def |-> "set_data_49", params |-> 2, tool |-> FALSE],
       [name |-> "get_data", def |-> "get_data_53", params |-> 2, tool |-> FALSE],
       [name |-> "transfer_call", def |-> "transfer_call_58", params |-> 1, tool |-> TRUE],
       [name |-> "_handle_transfer", def |-> "_handle_transfer_71", params |-> 3, tool |-> FALSE],
       [name |-> "transfer_call", def |-> "transfer_call_88", params |-> 2, tool |-> FALSE] >>

\* attribute lookup on the class: a later binding of a name replaces an earlier one
ClassNamespace(n) ==
    LET idx == { i \in 1..Len(ClassBody) : ClassBody[i].name = n }
        last == CHOOSE i \in idx : \A j \in idx : j <= i
    IN  ClassBody[last]

\* the statements of the body of _handle_transfer, in source order
HandleTransferBody_DialFirst == << "generate_reply", "transfer_call", "sleep" >>
HandleTransferBody == << "generate_reply", "sleep", "transfer_call" >>

AtHandle(s) ==
    /\ wf = "handle"
    /\ hp <= Len(HandleTransferBody)
    /\ HandleTransferBody[hp] = s

\* no call site passes allow_interruptions=False, and the session is built without it
Interruptible(kind) == kind \in {"greeting", "reply", "announcement", "apology"}

\* if not userdata.livekit_api
NeedsClient_Always(u) == TRUE
NeedsClient(u) == ~u.livekit_api

\* proto_sip.TransferSIPParticipantRequest(...)
TransferRequest(identity, room, to) ==
    [participant_identity |-> identity, room_name |-> room, transfer_to |-> to,
     play_dialtone |-> TRUE]

\* except Exception as e: logger.error(...); await self.session.generate_reply(...)
ExceptHandler_Silent(r) == [r EXCEPT !.outcome = Append(@, "Failed")]
ExceptHandler(r) == [r EXCEPT !.outcome = Append(@, "Failed"), !.apologies = @ + 1]

\* where control goes after the except clause requested the apology
ExceptNext_Retry == "request"
ExceptNext == "apologizing"

\* an exception leaves the tool: nothing in the sources handles it
Escape(step) ==
    /\ wf' = "none"
    /\ turn' = "Listening"
    /\ run' = [run EXCEPT !.failed = step, !.escaped = TRUE, !.resolved = TRUE]

\* ---------------------------------------------------------------- turn loop
CallerUtterance ==
    /\ session = "running"
    /\ turn = "Listening"
    /\ speech = "none"
    /\ wf = "none"
    /\ hist.turns < MaxTurns \/ (variant = "agent" /\ hist.toolCalls < MaxRuns)
    /\ turn' = "Reasoning"
    /\ UNCHANGED << variant, env, entryVars, session, userdata, speech, flowVars, hist >>

PlainReply ==
    /\ turn = "Reasoning"
    /\ hist.turns < MaxTurns
    /\ turn' = "Speaking"
    /\ speech' = "reply"
    /\ hist' = [hist EXCEPT !.turns = @ + 1]
    /\ UNCHANGED << variant, env, entryVars, session, userdata, flowVars >>

ReplyPlayed ==
    /\ speech = "reply"
    /\ speech' = "none"
    /\ turn' = "Listening"
    /\ UNCHANGED << variant, env, entryVars, session, userdata, flowVars, hist >>

GreetingPlayed ==
    /\ speech = "greeting"
    /\ speech' = "none"
    /\ UNCHANGED << variant, env, entryVars, session, userdata, turn, flowVars, hist >>

\* the transport signals the end of the call between two turns
CallEnd ==
    /\ session = "running"
    /\ turn = "Listening"
    /\ speech = "none"
    /\ wf = "none"
    /\ session' = "closed"
    /\ turn' = "Idle"
    /\ UNCHANGED << variant, env, entryVars, userdata, speech, flowVars, hist >>

\* the reasoning step yields an invocation of the tool named transfer_call
ReasoningYieldsTransfer ==
    /\ variant = "agent"
    /\ turn = "Reasoning"
    /\ hist.toolCalls < MaxRuns
    /\ turn' = "Tool"
    /\ wf' = "dispatch"
    /\ hp' = 1
    /\ timer' = 0
    /\ run' = NewRun
    /\ hist' = [hist EXCEPT !.toolCalls = @ + 1]
    /\ UNCHANGED << variant, env, entryVars, session, userdata, speech, args >>

\* the invocation reaches the code through the attribute transfer_call of the
\* agent, called with the run context as its only argument
DispatchByName ==
    /\ wf = "dispatch"
    /\ LET d == ClassNamespace("transfer_call")
       IN  IF d.tool /\ d.params = 1
           THEN /\ wf' = "tool_entry"
                /\ UNCHANGED << turn, run >>
           ELSE Escape("dispatch")
    /\ UNCHANGED << variant, env, entryVars, session, userdata, speech, hp, timer, args, hist >>

\* the invocation reaches the function object the decorator at line 57 was given
DispatchRegistered ==
    /\ wf = "dispatch"
    /\ wf' = "tool_entry"
    /\ UNCHANGED << variant, env, entryVars, session, userdata, turn, speech, hp, timer,
                    args, run, hist >>

\* transfer_call (function tool), lines 61-67
ToolEntry ==
    /\ wf = "tool_entry"
    /\ \E ok \in BOOLEAN :
        IF ok
        THEN /\ args' = [identity |-> AgentIdentity, transfer_number |-> TransferNumber,
                         department |-> DeptName]
             /\ userdata' = [userdata EXCEPT !.selected_department = DeptName]
             /\ wf' = "handle"
             /\ hp' = 1
             /\ run' = [run EXCEPT !.started = TRUE]
             /\ hist' = [hist EXCEPT !.handled = @ + 1]
             /\ turn' = turn
        ELSE /\ Escape("userdata")
             /\ UNCHANGED << args, userdata, hp, hist >>
    /\ UNCHANGED << variant, env, entryVars, session, speech, timer >>

\* _handle_transfer: await self.session.generate_reply(user_input=...)
Announce ==
    /\ AtHandle("generate_reply")
    /\ speech = "none"
    /\ \E ok \in BOOLEAN :
        IF ok
        THEN /\ speech' = "announcement"
             /\ wf' = "announcing"
             /\ run' = [run EXCEPT !.ann = @ + 1]
             /\ turn' = turn
        ELSE /\ Escape("announcement")
             /\ speech' = speech
    /\ UNCHANGED << variant, env, entryVars, session, userdata, hp, timer, args, hist >>

AnnouncementPlayed ==
    /\ wf = "announcing"
    /\ speech = "announcement"
    /\ speech' = "none"
    /\ wf' = "handle"
    /\ hp' = hp + 1
    /\ run' = [run EXCEPT !.annDone = TRUE]
    /\ UNCHANGED << variant, env, entryVars, session, userdata, turn, timer, args, hist >>

\* _handle_transfer: await asyncio.sleep(6)
Sleep ==
    /\ AtHandle("sleep")
    /\ wf' = "sleeping"
    /\ timer' = 0
    /\ UNCHANGED << variant, env, entryVars, session, userdata, turn, speech, hp, args,
                    run, hist >>

Tick ==
    /\ wf = "sleeping"
    /\ timer < GraceDelay
    /\ timer' = timer + 1
    /\ UNCHANGED << variant, env, entryVars, session, userdata, turn, speech, wf, hp, args,
                    run, hist >>

SleepReturns ==
    /\ wf = "sleeping"
    /\ timer = GraceDelay
    /\ wf' = "handle"
    /\ hp' = hp + 1
    /\ run' = [run EXCEPT !.slept = timer, !.sleptDone = TRUE]
    /\ UNCHANGED << variant, env, entryVars, session, userdata, turn, speech, timer, args,
                    hist >>

\* the task is cancelled while it sleeps
SleepCancelled ==
    /\ wf = "sleeping"
    /\ Escape("delay")
    /\ UNCHANGED << variant, env, entryVars, session, userdata, speech, hp, timer, args, hist >>

\* _handle_transfer: await self.transfer_call(identity, transfer_number)
CallTransfer ==
    /\ AtHandle("transfer_call")
    /\ LET d == ClassNamespace("transfer_call")
       IN  IF d.params = 2
           THEN /\ wf' = "transfer_entry"
                /\ run' = [run EXCEPT !.entered = TRUE]
                /\ turn' = turn
           ELSE Escape("call")
    /\ UNCHANGED << variant, env, entryVars, session, userdata, speech, hp, timer, args, hist >>

\* transfer_call (method): logger.info(...); userdata = self.session.userdata
TransferEntry ==
    /\ wf = "transfer_entry"
    /\ \E ok \in BOOLEAN :
        IF ok
        THEN /\ wf' = "client"
             /\ run' = run
        ELSE /\ wf' = "except"
             /\ run' = [run EXCEPT !.failed = "userdata"]
    /\ UNCHANGED << variant, env, entryVars, session, userdata, turn, speech, hp, timer,
                    args, hist >>

\* transfer_call (method): if not userdata.livekit_api: ... api.LiveKitAPI(...)
ObtainClient ==
    /\ wf = "client"
    /\ IF NeedsClient(userdata)
       THEN IF LiveKitCreds \subseteq env
            THEN /\ userdata' = [userdata EXCEPT !.livekit_api = TRUE]
                 /\ hist' = [hist EXCEPT !.built = @ + 1,
                                         !.credReads = @ \cup LiveKitCreds]
                 /\ run' = [run EXCEPT !.client = "built"]
                 /\ wf' = "request"
            ELSE /\ hist' = [hist EXCEPT !.credReads = @ \cup LiveKitCreds]
                 /\ run' = [run EXCEPT !.client = "failed", !.failed = "client"]
                 /\ wf' = "except"
                 /\ userdata' = userdata
       ELSE /\ hist' = [hist EXCEPT !.reused = @ + 1]
            /\ run' = [run EXCEPT !.client = "reused"]
            /\ wf' = "request"
            /\ userdata' = userdata
    /\ UNCHANGED << variant, env, entryVars, session, turn, speech, hp, timer, args >>

\* transfer_call (method): the request is built and sent
IssueRequest ==
    /\ wf = "request"
    /\ hist' = [hist EXCEPT !.requests =
                    Append(@, TransferRequest(args.identity, RoomName, args.transfer_number))]
    /\ run' = [run EXCEPT !.reqs = @ + 1]
    /\ wf' = "awaiting_ack"
    /\ UNCHANGED << variant, env, entryVars, session, userdata, turn, speech, hp, timer, args >>

\* the control API acknowledges: logger.info("Successfully transferred ...")
ApiAck ==
    /\ wf = "awaiting_ack"
    /\ run' = [run EXCEPT !.outcome = Append(@, "Success")]
    /\ wf' = "handle"
    /\ hp' = hp + 1
    /\ UNCHANGED << variant, env, entryVars, session, userdata, turn, speech, timer, args,
                    hist >>

\* the control API raises
ApiError ==
    /\ wf = "awaiting_ack"
    /\ run' = [run EXCEPT !.apiRaised = TRUE, !.failed = "api"]
    /\ wf' = "except"
    /\ UNCHANGED << variant, env, entryVars, session, userdata, turn, speech, hp, timer,
                    args, hist >>

\* transfer_call (method): the except clause
Except ==
    /\ wf = "except"
    /\ speech = "none"
    /\ run' = ExceptHandler(run)
    /\ speech' = IF run'.apologies > run.apologies THEN "apology" ELSE speech
    /\ hist' = [hist EXCEPT !.credFallback = @ \/ (run.failed = "client")]
    /\ wf' = ExceptNext
    /\ UNCHANGED << variant, env, entryVars, session, userdata, turn, hp, timer, args >>

ApologyPlayed ==
    /\ wf = "apologizing"
    /\ speech = "apology"
    /\ speech' = "none"
    /\ wf' = "handle"
    /\ hp' = hp + 1
    /\ UNCHANGED << variant, env, entryVars, session, userdata, turn, timer, args, run, hist >>

\* _handle_transfer returned: return f"Transferring to {dept_name} department."
ToolReturn ==
    /\ wf = "handle"
    /\ hp > Len(HandleTransferBody)
    /\ wf' = "none"
    /\ turn' = "Listening"
    /\ run' = [run EXCEPT !.resolved = TRUE]
    /\ UNCHANGED << variant, env, entryVars, session, userdata, speech, hp, timer, args, hist >>

\* the caller speaks while a speech is being played
BargeIn ==
    /\ speech # "none"
    /\ Interruptible(speech)
    /\ speech' = "none"
    /\ IF speech = "reply"
       THEN /\ turn' = "Listening"
            /\ UNCHANGED << wf, hp, run >>
       ELSE IF speech = "announcement"
       THEN /\ wf' = "handle"
            /\ hp' = hp + 1
            /\ run' = [run EXCEPT !.annDone = TRUE, !.annCut = TRUE]
            /\ turn' = turn
       ELSE IF speech = "apology"
       THEN /\ wf' = "handle"
            /\ hp' = hp + 1
            /\ UNCHANGED << turn, run >>
       ELSE UNCHANGED << turn, wf, hp, run >>
    /\ UNCHANGED << variant, env, entryVars, session, userdata, timer, args, hist >>

Next ==
    \/ Connect
    \/ WaitForParticipant
    \/ InitContext
    \/ CreateTTS
    \/ StartSession
    \/ Greet
    \/ GreetingPlayed
    \/ CallerUtterance
    \/ PlainReply
    \/ ReplyPlayed
    \/ CallEnd
    \/ ReasoningYieldsTransfer
    \/ DispatchByName
    \/ DispatchRegistered
    \/ ToolEntry
    \/ Announce
    \/ AnnouncementPlayed
    \/ Sleep
    \/ Tick
    \/ SleepReturns
    \/ SleepCancelled
    \/ CallTransfer
    \/ TransferEntry
    \/ ObtainClient
    \/ IssueRequest
    \/ ApiAck
    \/ ApiError
    \/ Except
    \/ ApologyPlayed
    \/ ToolReturn
    \/ BargeIn

Spec == Init /\ [][Next]_vars

\* ================================================================== claims

C2_ToolRunsWorkflow ==
    run.resolved =>
        /\ run.started
        /\ run.ann = 1
        /\ run.sleptDone
        /\ run.reqs = 1
        /\ args.department = DeptName
        /\ args.transfer_number = TransferNumber

\* C3: a transfer request is issued only after the announcement was requested
\* and its await returned, and after the sleep of 6 seconds returned; the
\* sleep starts only after the announcement, the client is obtained only
\* after the sleep.
C3_WorkflowOrder ==
    /\ run.reqs > 0 =>
           /\ run.ann = 1
           /\ run.annDone
           /\ run.sleptDone
           /\ run.slept = 6
           /\ run.client \in {"built", "reused"}
    /\ (wf = "sleeping" \/ run.sleptDone) => (run.ann = 1 /\ run.annDone)
    /\ (run.entered \/ run.client # "none") => (run.sleptDone /\ run.slept = 6)

C3_Witness ==
    /\ run.reqs = 1
    /\ run.annDone
    /\ run.slept = 6
    /\ run.outcome = << "Success" >>

\* C4: every transfer request sent to the control API carries the identity of
\* the caller, the name of the room, the destination address and the
\* dial-tone flag set.
C4_RequestFields ==
    \A i \in 1..Len(hist.requests) :
        hist.requests[i] = [participant_identity |-> CallerIdentity,
                            room_name |-> RoomName,
                            transfer_to |-> TransferNumber,
                            play_dialtone |-> TRUE]

\* C5: one execution of the workflow issues at most one transfer request,
\* also when the request failed and the except clause ran.
C5_AtMostOneRequest ==
    /\ run.reqs <= 1
    /\ Len(hist.requests) <= hist.handled

C5_Witness ==
    /\ run.apiRaised
    /\ run.resolved
    /\ run.apologies = 1
    /\ run.reqs = 1

\* C6: caller speech never cuts the announcement of a transfer.
C6_TransferNotPreempted == ~run.annCut

\* C7: every tool invocation that ended on a raised exception while the
\* session stays alive has requested a spoken message.
C7_NoSilentFailure ==
    (run.resolved /\ run.failed # "none" /\ session = "running") => run.apologies >= 1

\* C8: no credential is read once a caller has joined or the session has
\* started, and a missing credential never ends in the spoken fallback of a
\* failed transfer.
C8_ConfigFatalAtStart ==
    /\ hist.credReads = {}
    /\ ~hist.credFallback

\* C9: over all executions of one session at most one telephony client is
\* constructed; the stored handle exists exactly when one was constructed,
\* and an execution that finds it issues its request without constructing.
C9_ClientOnce ==
    /\ hist.built <= 1
    /\ userdata.livekit_api <=> hist.built = 1
    /\ run.client = "reused" => hist.built = 1
    /\ hist.reused > 0 => hist.built = 1

C9_Witness ==
    /\ hist.built = 1
    /\ hist.reused = 1
    /\ run.client = "reused"
    /\ Len(hist.requests) = 2

\* C10 as stated: in every entrypoint the greeting is requested only after a
\* participant joined and the context holds identity, language and call-start
\* data; a failed connect or participant wait leaves no greeting and no turn.
C10_Original ==
    /\ hist.greetings > 0 =>
           /\ connected
           /\ joined
           /\ participant_identity = CallerIdentity
           /\ session_data["language"] # "unset"
           /\ session_data["start_time"] # "unset"
    /\ (~alive /\ (~connected \/ ~joined)) => (hist.greetings = 0 /\ hist.turns = 0)

\* C10 amended: agent.py greets only after connect, the participant wait and
\* the context (identity, language, call-start data); _agent3.py greets only
\* after connect, the participant wait and a context of room and identity;
\* _agent2.py greets after connect with no participant wait and no context;
\* in all three an entrypoint that raised requested no greeting and ran no turn.
C10_StartOrder ==
    /\ hist.greetings <= 1
    /\ hist.greetings > 0 => (connected /\ session # "none")
    /\ (hist.greetings > 0 /\ variant \in {"agent", "agent3"}) =>
           /\ joined
           /\ participant_identity = CallerIdentity
           /\ room_name = RoomName
    /\ (hist.greetings > 0 /\ variant = "agent") =>
           /\ get_data(session_data, "language", "None") = "es"
           /\ get_data(session_data, "start_time", "None") = "now"
    /\ variant = "agent2" => (~joined /\ participant_identity = "None")
    /\ variant # "agent" => session_data = NoData
    /\ ~alive => (hist.greetings = 0 /\ hist.turns = 0 /\ session = "none")

C10_Witness ==
    /\ variant = "agent"
    /\ hist.greetings = 1
    /\ joined
    /\ session_data["language"] = "es"
    /\ hist.turns > 0
====
